---- MODULE Spec2Model ----
(***************************************************************************)
(* Model of the alarm appliance of src/main.py and src/audio.py: the       *)
(* AlarmController (trigger / mute / reset and the per-trigger reset-wait  *)
(* thread), the alarm-button monitor, the status LED loop, the AudioWorker *)
(* consuming audio_cmd_q, and the SoundPlayer process handle.              *)
(*                                                                         *)
(* Every thread is a program counter in pc; one action is one step of a    *)
(* thread between two points where another thread can be scheduled.        *)
(* add_history() only prepends to the history deque; it is folded into the *)
(* step of the same thread that precedes it, and the deque is modelled by  *)
(* its head (history[0], the entry the UI shows).  time.sleep() is a       *)
(* scheduling point without effect.                                        *)
(*                                                                         *)
(* SpecHW is the hardware path alone, SpecRace the controller with all its *)
(* callers, SpecCtrl adds the status LED loop, SpecAudio is the worker     *)
(* under arbitrary producers (SpecAudioVol with volume commands, SpecExit  *)
(* with every way the main thread ends the program), SpecFault is SpecRace *)
(* with failing GPIO writes, SpecBoot the module start followed by the     *)
(* hardware path, SpecDebounce the monitor with its sleeps measured,       *)
(* SpecShutdown all background threads under fair scheduling, SpecVolume   *)
(* the worker fed with set_volume commands only, SpecIndicator the         *)
(* hardware path with the status LED loop under fair scheduling, SpecSound *)
(* the controller together with the worker, SpecLocks the threads that     *)
(* take _lock, _state_lock and audio_playing_lock with one step per lock   *)
(* operation (update_ui and the worker's flag writes included),            *)
(* SpecRelease the end of main() beside the daemon threads, SpecResetFail  *)
(* SpecRace with a reset-wait whose GPIO read raises, Spec the whole       *)
(* program.                                                                *)
(***************************************************************************)
EXTENDS Integers, Sequences, FiniteSets, TLC

\* ------------------------------------------------------------ bounds
\* reset-wait threads that can be alive at once
MaxWaiters == 2
\* controller operations invoked by the UI and by the alarm-button monitor
MaxOps == 3
\* commands an arbitrary producer puts on audio_cmd_q (SpecAudio)
MaxCmds == 4
\* alarm-button presses confirmed before shutdown is asked for, in the
\* specification of shutdown
MaxAlarms == 1
\* 50 ms units up to which the length of a hold of the alarm button is kept
MaxHeld == 3

\* ------------------------------------------------------------ constants
\* main.py:76-79, 136-139  the pins set up at the start
NumPins == 4
HIGH == 1
LOW == 0

WaiterName == <<"w1", "w2", "w3", "w4">>
Waiters == {WaiterName[i] : i \in 1..MaxWaiters}
\* threads that call controller operations
Callers == {"ui", "mon"} \cup Waiters

\* the configured alarm sound
ALARM_MP3 == "a"
\* sound files that exist on disk, and paths a Play command can name
ExistingFiles == {"a", "b"}
Files == ExistingFiles \cup {"missing"}
\* arguments of set_volume commands, as the strings int() is applied to
VolumeArgs == {"-1", "50", "101", "x"}
\* the same with the ends of the range, for the worker taken with volume
\* commands alone
VolumeInputs == VolumeArgs \cup {"0", "100", "+7", "-", "5.5"}

VARIABLES
    alarm_active,   \* main.py:150  global alarm_active
    state_lock,     \* main.py:149  _state_lock: its holder, or "free"
    ctrl_lock,      \* main.py:281  AlarmController._lock: its holder, or "free"
    pins,           \* output pins: [buz, led]
    inp,            \* raw level of the input pins: [alarm, reset]
    queue,          \* main.py:152  audio_cmd_q
    stop_event,     \* main.py:153  _stop_event
    audio_playing,  \* main.py:155  "currently playing" flag
    history,        \* main.py:158  head of the history deque
    pc,             \* position of every thread
    press_count,    \* main.py:302  local of each reset-wait thread
    ops,            \* controller operations invoked so far, by kind
    ninv,           \* operations invoked by the UI and the monitor
    latest,         \* the reset-wait thread started by the latest trigger()
    player,         \* AudioWorker.player: "unset", "ok" or "none"
    proc,           \* SoundPlayer._proc: <<>> or <<[file, alive]>>
    orphans,        \* files of live player processes _proc no longer refers to
    cur,            \* the command the AudioWorker took from the queue
    volume,         \* percent last passed to amixer
    nextid,         \* number the next enqueued command gets
    executed,       \* numbers of the commands the worker has taken, in order
    cleanups,       \* number of GPIO.cleanup() calls made so far
    timer,          \* 50 ms units left of the monitor's time.sleep (SpecDebounce)
    held,           \* 50 ms units the alarm button has been HIGH without a break
    hits,           \* trigger() calls the monitor made for the present hold
    boot,           \* module start: [step, gpio, pinsup, failed]
    ap_lock,        \* main.py:156  audio_playing_lock: its holder, or "free"
    shown,          \* main.py:473, 479  status_var and audio_var of the UI
    raised          \* reset-wait threads in the except clause of main.py:321

uiVars == <<ap_lock, shown, raised>>
hwVars == <<cleanups, timer, held, hits, boot, uiVars>>
ctrlVars == <<alarm_active, state_lock, ctrl_lock, pins, inp, press_count,
                   ops, ninv, latest, hwVars>>
audioVars == <<audio_playing, player, proc, orphans, cur, volume, executed>>
vars == <<alarm_active, state_lock, ctrl_lock, pins, inp, queue, stop_event,
          audio_playing, history, pc, press_count, ops, ninv,
          latest, player, proc, orphans, cur, volume, nextid, executed,
          cleanups, timer, held, hits, boot, ap_lock, shown, raised>>

Threads == Callers \cup {"led", "aw"}

NoCmd == [cmd |-> "none", arg |-> "none", id |-> 0]

\* main.py:121-146  the module start as it ends off the Pi: the simulated
\* backend, its four pins set up
BootDone == [step |-> "done", gpio |-> "mock", pinsup |-> NumPins,
             failed |-> FALSE]

InitRest ==
    /\ alarm_active = FALSE
    /\ state_lock = "free"
    /\ ctrl_lock = "free"
    /\ pins = [buz |-> LOW, led |-> LOW]
    /\ inp = [alarm |-> LOW, reset |-> LOW]
    /\ queue = <<>>
    /\ stop_event = FALSE
    /\ audio_playing = FALSE
    /\ history = "none"
    /\ pc = [t \in Threads |->
               CASE t = "ui" -> "ui_idle"
                 [] t = "mon" -> "mon_poll"
                 [] t = "led" -> "l_top"
                 [] t = "aw" -> "aw_init"
                 [] OTHER -> "off"]
    /\ press_count = [w \in Waiters |-> 0]
    /\ ops = [trigger |-> 0, mute |-> 0, reset |-> 0]
    /\ ninv = 0
    /\ latest = "none"
    /\ player = "unset"
    /\ proc = <<>>
    /\ orphans = {}
    /\ cur = NoCmd
    /\ volume = 80
    /\ nextid = 1
    /\ executed = <<>>
    /\ cleanups = 0
    /\ timer = 0
    /\ held = 0
    /\ hits = 0
    /\ ap_lock = "free"
    /\ shown = [status |-> "initializing", audio |-> "stopped"]
    /\ raised = {}

Init == InitRest /\ boot = BootDone

\* ------------------------------------------------------------ helpers
Goto(t, l) == pc' = [pc EXCEPT ![t] = l]

\* audio_cmd_q.put((cmd, arg)); the id numbers the put
Put(q, cmd, arg) == Append(q, [cmd |-> cmd, arg |-> arg, id |-> nextid])

\* GPIO.output(pin, value)
Output(p, pin, value) == [p EXCEPT ![pin] = value]

\* where a caller continues after a controller operation returns
Ret(t, op) ==
    IF t = "ui" THEN "ui_idle"
    ELSE IF t = "mon" THEN "mon_rel"
    ELSE IF op = "mute" THEN "w_poll"
    ELSE "off"

FreeWaiters == {w \in Waiters : pc[w] = "off"}
NewWaiter == CHOOSE w \in FreeWaiters : \A v \in FreeWaiters :
                 \E i, j \in 1..MaxWaiters :
                     WaiterName[i] = w /\ WaiterName[j] = v /\ i <= j

\* the entry a caller appends after the operation it called has returned
PostMsg(t, op) ==
    IF t = "ui" THEN (IF op = "mute" THEN "gui-mute" ELSE "gui-reset")
    ELSE IF op = "mute" THEN "mute-1st-press"
    ELSE IF t \in raised THEN "reset-reactivated"
    ELSE "reset-2nd-press"

Count(op) == ops' = [ops EXCEPT ![op] = @ + 1]

\* ------------------------------------------------------------ module start
\* main.py:19-24, 71, 122  IS_RPI and the SIMULATE_GPIO setting
BootInputs == [is_rpi : BOOLEAN, simulate : BOOLEAN]

\* main.py:145-146  a setup() raised: the exception is logged; GPIO stays
\* what it was and the pins not yet set up stay so
SetupFailed(b) == [b EXCEPT !.step = "done", !.failed = TRUE]

\* main.py:122-125  on the Pi and not simulating: setmode/setwarnings on
\* RPi.GPIO
BootSelectReal ==
    /\ boot.step = "select"
    /\ \E i \in BootInputs :
         /\ i.is_rpi /\ ~i.simulate
         /\ boot' = [boot EXCEPT !.step = "setup", !.gpio = "real"]
    /\ UNCHANGED <<alarm_active, state_lock, ctrl_lock, pins, inp, queue,
                   stop_event, history, pc, press_count, ops, ninv, nextid>>
    /\ UNCHANGED <<latest, cleanups, timer, held, hits, audioVars, uiVars>>

\* main.py:126-129  ... and setmode raises: GPIO = MockGPIO()
BootSelectFails ==
    /\ boot.step = "select"
    /\ \E i \in BootInputs :
         /\ i.is_rpi /\ ~i.simulate
         /\ boot' = [boot EXCEPT !.step = "setup", !.gpio = "mock",
                                 !.failed = TRUE]
    /\ UNCHANGED <<alarm_active, state_lock, ctrl_lock, pins, inp, queue,
                   stop_event, history, pc, press_count, ops, ninv, nextid>>
    /\ UNCHANGED <<latest, cleanups, timer, held, hits, audioVars, uiVars>>

\* main.py:130-132  not on the Pi, or simulating: GPIO = MockGPIO()
BootSelectMock ==
    /\ boot.step = "select"
    /\ \E i \in BootInputs :
         /\ ~(i.is_rpi /\ ~i.simulate)
         /\ boot' = [boot EXCEPT !.step = "setup", !.gpio = "mock"]
    /\ UNCHANGED <<alarm_active, state_lock, ctrl_lock, pins, inp, queue,
                   stop_event, history, pc, press_count, ops, ninv, nextid>>
    /\ UNCHANGED <<latest, cleanups, timer, held, hits, audioVars, uiVars>>

\* main.py:136-144  GPIO.setup of the next pin; after the fourth the two
\* outputs are written LOW (a failure of these writes is passed over)
BootSetup ==
    /\ boot.step = "setup"
    /\ boot' = [boot EXCEPT !.pinsup = @ + 1,
                            !.step = IF boot.pinsup + 1 = NumPins
                                     THEN "done" ELSE "setup"]
    /\ UNCHANGED <<alarm_active, state_lock, ctrl_lock, pins, inp, queue,
                   stop_event, history, pc, press_count, ops, ninv, nextid>>
    /\ UNCHANGED <<latest, cleanups, timer, held, hits, audioVars, uiVars>>

\* main.py:136-139, 145-146  GPIO.setup of the next pin raises (RPi.GPIO
\* only: MockGPIO.setup, main.py:101-104, cannot)
BootSetupFails ==
    /\ boot.step = "setup"
    /\ boot.gpio = "real"
    /\ boot' = SetupFailed(boot)
    /\ UNCHANGED <<alarm_active, state_lock, ctrl_lock, pins, inp, queue,
                   stop_event, history, pc, press_count, ops, ninv, nextid>>
    /\ UNCHANGED <<latest, cleanups, timer, held, hits, audioVars, uiVars>>

\* ------------------------------------------------------------ trigger()
\* main.py:285  with self._lock
TrigLock(t) ==
    /\ pc[t] = "t_lock"
    /\ ctrl_lock = "free"
    /\ ctrl_lock' = t
    /\ Goto(t, "t_slock")
    /\ UNCHANGED <<alarm_active, state_lock, pins, inp, queue, stop_event,
                   history, press_count, ops, ninv, nextid>>
    /\ UNCHANGED <<latest, hwVars, audioVars>>

\* main.py:286  with _state_lock
TrigStateLock(t) ==
    /\ pc[t] = "t_slock"
    /\ state_lock = "free"
    /\ state_lock' = t
    /\ Goto(t, "t_check")
    /\ UNCHANGED <<alarm_active, ctrl_lock, pins, inp, queue, stop_event,
                   history, press_count, ops, ninv, nextid>>
    /\ UNCHANGED <<latest, hwVars, audioVars>>

\* trigger() without the test of alarm_active
TrigCheck_NoTest(t) ==
    /\ pc[t] = "t_check"
    /\ FreeWaiters # {}
    /\ alarm_active' = TRUE
    /\ history' = "alarm-triggered"
    /\ Goto(t, "t_buz")
    /\ state_lock' = "free"
    /\ UNCHANGED <<ctrl_lock, pins, inp, queue, stop_event, press_count,
                   ops, ninv, nextid>>
    /\ UNCHANGED <<latest, hwVars, audioVars>>

\* an ignored trigger() that returns with the controller lock still held
TrigCheck_KeepsLock(t) ==
    /\ pc[t] = "t_check"
    /\ IF alarm_active
       THEN /\ history' = "trigger-ignored"
            /\ Goto(t, Ret(t, "trigger"))
            /\ UNCHANGED alarm_active
       ELSE /\ FreeWaiters # {}
            /\ alarm_active' = TRUE
            /\ history' = "alarm-triggered"
            /\ Goto(t, "t_buz")
    /\ state_lock' = "free"
    /\ UNCHANGED <<ctrl_lock, pins, inp, queue, stop_event, press_count,
                   ops, ninv, nextid>>
    /\ UNCHANGED <<latest, hwVars, audioVars>>

\* main.py:287-292  the test of alarm_active: an ignored trigger logs and
\* returns (both locks released); otherwise alarm_active is set, the state
\* lock released and "Alarm ausgeloest" logged
TrigCheck(t) ==
    /\ pc[t] = "t_check"
    /\ IF alarm_active
       THEN /\ history' = "trigger-ignored"
            /\ ctrl_lock' = "free"
            /\ Goto(t, Ret(t, "trigger"))
            /\ UNCHANGED alarm_active
       ELSE /\ FreeWaiters # {}
            /\ alarm_active' = TRUE
            /\ history' = "alarm-triggered"
            /\ Goto(t, "t_buz")
            /\ UNCHANGED ctrl_lock
    /\ state_lock' = "free"
    /\ UNCHANGED <<pins, inp, queue, stop_event, press_count,
                   ops, ninv, nextid>>
    /\ UNCHANGED <<latest, hwVars, audioVars>>

\* main.py:294  GPIO.output(PIN_OUTPUT_BUZ, GPIO.HIGH)
TrigBuz(t) ==
    /\ pc[t] = "t_buz"
    /\ pins' = Output(pins, "buz", HIGH)
    /\ Goto(t, "t_led")
    /\ UNCHANGED <<alarm_active, state_lock, ctrl_lock, inp, queue, stop_event,
                   history, press_count, ops, ninv, nextid>>
    /\ UNCHANGED <<latest, hwVars, audioVars>>

\* main.py:295  GPIO.output(PIN_OUTPUT_LED, GPIO.HIGH)
TrigLed(t) ==
    /\ pc[t] = "t_led"
    /\ pins' = Output(pins, "led", HIGH)
    /\ Goto(t, "t_put")
    /\ UNCHANGED <<alarm_active, state_lock, ctrl_lock, inp, queue, stop_event,
                   history, press_count, ops, ninv, nextid>>
    /\ UNCHANGED <<latest, hwVars, audioVars>>

\* main.py:298  audio_cmd_q.put(("play", ALARM_MP3))
TrigPut(t) ==
    /\ pc[t] = "t_put"
    /\ queue' = Put(queue, "play", ALARM_MP3)
    /\ nextid' = nextid + 1
    /\ Goto(t, "t_start")
    /\ UNCHANGED <<alarm_active, state_lock, ctrl_lock, pins, inp, stop_event,
                   history, press_count, ops, ninv>>
    /\ UNCHANGED <<latest, hwVars, audioVars>>

\* main.py:299  the reset-wait thread is started (press_count = 0, line 302),
\* the controller lock is released and trigger() returns
TrigStart(t) ==
    /\ pc[t] = "t_start"
    /\ pc' = [pc EXCEPT ![t] = Ret(t, "trigger"), ![NewWaiter] = "w_poll"]
    /\ press_count' = [press_count EXCEPT ![NewWaiter] = 0]
    /\ latest' = NewWaiter
    /\ ctrl_lock' = "free"
    /\ UNCHANGED <<alarm_active, state_lock, pins, inp, queue, stop_event,
                   history, ops, ninv, nextid>>
    /\ UNCHANGED <<hwVars, audioVars>>

\* ------------------------------------------------------------ mute()
\* main.py:327  GPIO.output(PIN_OUTPUT_BUZ, GPIO.LOW)
MuteBuz(t) ==
    /\ pc[t] = "m_buz"
    /\ pins' = Output(pins, "buz", LOW)
    /\ Goto(t, "m_put")
    /\ UNCHANGED <<alarm_active, state_lock, ctrl_lock, inp, queue, stop_event,
                   history, press_count, ops, ninv, nextid>>
    /\ UNCHANGED <<latest, hwVars, audioVars>>

\* a mute() that also counts as a press of the reset button
MutePut_Counts(t) ==
    /\ pc[t] = "m_put"
    /\ queue' = Put(queue, "stop", "none")
    /\ nextid' = nextid + 1
    /\ history' = PostMsg(t, "mute")
    /\ Goto(t, Ret(t, "mute"))
    /\ press_count' = [w \in Waiters |->
                         IF pc[w] # "off" /\ w # t THEN press_count[w] + 1
                         ELSE press_count[w]]
    /\ UNCHANGED <<alarm_active, state_lock, ctrl_lock, pins, inp, stop_event,
                   ops, ninv>>
    /\ UNCHANGED <<latest, hwVars, audioVars>>

\* main.py:330-331  audio_cmd_q.put(("stop", None)), history, return
MutePut(t) ==
    /\ pc[t] = "m_put"
    /\ queue' = Put(queue, "stop", "none")
    /\ nextid' = nextid + 1
    /\ history' = PostMsg(t, "mute")
    /\ Goto(t, Ret(t, "mute"))
    /\ UNCHANGED <<alarm_active, state_lock, ctrl_lock, pins, inp, stop_event,
                   press_count, ops, ninv>>
    /\ UNCHANGED <<latest, hwVars, audioVars>>

\* ------------------------------------------------------------ reset()
\* main.py:335  audio_cmd_q.put(("stop", None))
ResetPut(t) ==
    /\ pc[t] = "r_put"
    /\ queue' = Put(queue, "stop", "none")
    /\ nextid' = nextid + 1
    /\ Goto(t, "r_buz")
    /\ UNCHANGED <<alarm_active, state_lock, ctrl_lock, pins, inp, stop_event,
                   history, press_count, ops, ninv>>
    /\ UNCHANGED <<latest, hwVars, audioVars>>

\* main.py:337  GPIO.output(PIN_OUTPUT_BUZ, GPIO.LOW)
ResetBuz(t) ==
    /\ pc[t] = "r_buz"
    /\ pins' = Output(pins, "buz", LOW)
    /\ Goto(t, "r_led")
    /\ UNCHANGED <<alarm_active, state_lock, ctrl_lock, inp, queue, stop_event,
                   history, press_count, ops, ninv, nextid>>
    /\ UNCHANGED <<latest, hwVars, audioVars>>

\* main.py:338  GPIO.output(PIN_OUTPUT_LED, GPIO.LOW)
ResetLed(t) ==
    /\ pc[t] = "r_led"
    /\ pins' = Output(pins, "led", LOW)
    /\ Goto(t, "r_slock")
    /\ UNCHANGED <<alarm_active, state_lock, ctrl_lock, inp, queue, stop_event,
                   history, press_count, ops, ninv, nextid>>
    /\ UNCHANGED <<latest, hwVars, audioVars>>

\* main.py:341  with _state_lock
ResetStateLock(t) ==
    /\ pc[t] = "r_slock"
    /\ state_lock = "free"
    /\ state_lock' = t
    /\ Goto(t, "r_clear")
    /\ UNCHANGED <<alarm_active, ctrl_lock, pins, inp, queue, stop_event,
                   history, press_count, ops, ninv, nextid>>
    /\ UNCHANGED <<latest, hwVars, audioVars>>

\* main.py:342-343  alarm_active = False, lock released, history, return; a
\* reset-wait thread then leaves its loop (main.py:319) and ends
ResetClear(t) ==
    /\ pc[t] = "r_clear"
    /\ alarm_active' = FALSE
    /\ state_lock' = "free"
    /\ history' = PostMsg(t, "reset")
    /\ Goto(t, Ret(t, "reset"))
    /\ press_count' = [w \in Waiters |-> IF w = t THEN 0 ELSE press_count[w]]
    /\ raised' = raised \ {t}
    /\ UNCHANGED <<ctrl_lock, pins, inp, queue, stop_event, ops,
                   ninv, nextid>>
    /\ UNCHANGED <<latest, cleanups, timer, held, hits, boot, ap_lock, shown,
                   audioVars>>

\* ------------------------------------------------------------ failing writes
\* the places where the controller calls GPIO.output
WriteLabels == {"t_buz", "t_led", "m_buz", "r_buz", "r_led"}

\* handlers whose try block also holds the statement after the writes
ExceptTarget_PastPut(l) ==
    CASE l \in {"t_buz", "t_led"} -> "t_start"
      [] l = "m_buz" -> "m_put"
      [] l \in {"r_buz", "r_led"} -> "r_slock"

\* main.py:296-298, 328-330, 339-341  where the except clause of the try
\* around the write at l goes on: the exception is logged and the statement
\* after the try block comes next
ExceptTarget(l) ==
    CASE l \in {"t_buz", "t_led"} -> "t_put"
      [] l = "m_buz" -> "m_put"
      [] l \in {"r_buz", "r_led"} -> "r_slock"

\* main.py:293-297, 326-329, 336-340  GPIO.output raises: the pin keeps its
\* level and the rest of the try block is skipped
WriteFails(t) ==
    /\ pc[t] \in WriteLabels
    /\ Goto(t, ExceptTarget(pc[t]))
    /\ UNCHANGED <<alarm_active, state_lock, ctrl_lock, pins, inp, queue,
                   stop_event, history, press_count, ops, ninv, nextid>>
    /\ UNCHANGED <<latest, hwVars, audioVars>>

\* ------------------------------------------------------------ UI thread
\* main.py:599-602  AlarmApp.on_simulate
UiSimulate ==
    /\ pc["ui"] = "ui_idle"
    /\ ninv < MaxOps
    /\ history' = "gui-simulate"
    /\ Count("trigger")
    /\ ninv' = ninv + 1
    /\ Goto("ui", "t_lock")
    /\ UNCHANGED <<alarm_active, state_lock, ctrl_lock, pins, inp, queue,
                   stop_event, press_count, nextid>>
    /\ UNCHANGED <<latest, hwVars, audioVars>>

\* main.py:604-605  AlarmApp.on_mute
UiMute ==
    /\ pc["ui"] = "ui_idle"
    /\ ninv < MaxOps
    /\ Count("mute")
    /\ ninv' = ninv + 1
    /\ Goto("ui", "m_buz")
    /\ UNCHANGED <<alarm_active, state_lock, ctrl_lock, pins, inp, queue,
                   stop_event, history, press_count, nextid>>
    /\ UNCHANGED <<latest, hwVars, audioVars>>

\* main.py:609-610  AlarmApp.on_reset
UiReset ==
    /\ pc["ui"] = "ui_idle"
    /\ ninv < MaxOps
    /\ Count("reset")
    /\ ninv' = ninv + 1
    /\ Goto("ui", "r_put")
    /\ UNCHANGED <<alarm_active, state_lock, ctrl_lock, pins, inp, queue,
                   stop_event, history, press_count, nextid>>
    /\ UNCHANGED <<latest, hwVars, audioVars>>

\* main.py:525, 684  the Tk main loop runs update_ui (first from
\* AlarmApp.__init__, then every 150 ms)
UiRefreshStart ==
    /\ pc["ui"] = "ui_idle"
    /\ Goto("ui", "u_slock")
    /\ UNCHANGED <<queue, stop_event, history, nextid>>
    /\ UNCHANGED <<ctrlVars, audioVars>>

\* main.py:659  with _state_lock
UiRefreshLock ==
    /\ pc["ui"] = "u_slock"
    /\ state_lock = "free"
    /\ state_lock' = "ui"
    /\ Goto("ui", "u_read")
    /\ UNCHANGED <<alarm_active, ctrl_lock, pins, inp, queue, stop_event,
                   history, press_count, ops, ninv, nextid>>
    /\ UNCHANGED <<latest, hwVars, audioVars>>

\* main.py:660-662  active = alarm_active, lock released, status_var set
UiRefreshRead ==
    /\ pc["ui"] = "u_read"
    /\ state_lock' = "free"
    /\ shown' = [shown EXCEPT !.status = IF alarm_active THEN "alarm"
                                         ELSE "ready"]
    /\ Goto("ui", "u_alock")
    /\ UNCHANGED <<alarm_active, ctrl_lock, pins, inp, queue, stop_event,
                   history, press_count, ops, ninv, nextid>>
    /\ UNCHANGED <<latest, cleanups, timer, held, hits, boot, ap_lock,
                   audioVars>>
    /\ UNCHANGED raised

\* main.py:664  with audio_playing_lock
UiRefreshAudioLock ==
    /\ pc["ui"] = "u_alock"
    /\ ap_lock = "free"
    /\ ap_lock' = "ui"
    /\ Goto("ui", "u_aread")
    /\ UNCHANGED <<alarm_active, state_lock, ctrl_lock, pins, inp, queue,
                   stop_event, history, press_count, ops, ninv, nextid>>
    /\ UNCHANGED <<latest, cleanups, timer, held, hits, boot, shown,
                   audioVars>>
    /\ UNCHANGED raised

\* main.py:665-684  ap = audio_playing, lock released, audio_var set; the
\* next run is left to the main loop
UiRefreshAudioRead ==
    /\ pc["ui"] = "u_aread"
    /\ ap_lock' = "free"
    /\ shown' = [shown EXCEPT !.audio = IF audio_playing THEN "playing"
                                        ELSE "stopped"]
    /\ Goto("ui", "ui_idle")
    /\ UNCHANGED <<alarm_active, state_lock, ctrl_lock, pins, inp, queue,
                   stop_event, history, press_count, ops, ninv, nextid>>
    /\ UNCHANGED <<latest, cleanups, timer, held, hits, boot, audioVars>>
    /\ UNCHANGED raised

\* ------------------------------------------------------------ monitor_alarm_button
\* main.py:374-376  loop test and first sample of the alarm button
MonPoll ==
    /\ pc["mon"] = "mon_poll"
    /\ stop_event \/ inp.alarm = HIGH
    /\ Goto("mon", IF stop_event THEN "done" ELSE "mon_confirm")
    /\ UNCHANGED <<queue, stop_event, history, nextid>>
    /\ UNCHANGED ctrlVars
    /\ UNCHANGED <<hwVars, audioVars>>

\* main.py:377-380  second sample after 50 ms; a press still HIGH is logged
\* and trigger() is called, anything else goes back to polling
MonConfirm ==
    /\ pc["mon"] = "mon_confirm"
    /\ IF inp.alarm = HIGH
       THEN /\ ninv < MaxOps
            /\ history' = "hw-alarm-button"
            /\ Count("trigger")
            /\ ninv' = ninv + 1
            /\ Goto("mon", "t_lock")
       ELSE /\ Goto("mon", "mon_poll")
            /\ UNCHANGED <<history, ops, ninv>>
    /\ UNCHANGED <<alarm_active, state_lock, ctrl_lock, pins, inp, queue,
                   stop_event, press_count, nextid>>
    /\ UNCHANGED <<latest, hwVars, audioVars>>

\* a wait for the release that does not look at the stop flag
MonRelease_NoStop ==
    /\ pc["mon"] = "mon_rel"
    /\ inp.alarm = LOW
    /\ Goto("mon", "mon_poll")
    /\ UNCHANGED <<queue, stop_event, history, nextid>>
    /\ UNCHANGED ctrlVars
    /\ UNCHANGED audioVars

\* main.py:382-384  wait until the button is released (or shutdown)
MonRelease ==
    /\ pc["mon"] = "mon_rel"
    /\ inp.alarm = LOW \/ stop_event
    /\ Goto("mon", "mon_poll")
    /\ UNCHANGED <<queue, stop_event, history, nextid>>
    /\ UNCHANGED ctrlVars
    /\ UNCHANGED <<hwVars, audioVars>>

\* ------------------------------------------------------------ the monitor in time
\* The monitor once more, with the length of its sleeps kept in timer, in
\* units of 50 ms: a step of the monitor needs timer = 0, and Tick lets one
\* unit pass while the monitor sleeps.
\* main.py:377, 383  time.sleep(0.05), in units of 50 ms
ConfirmSleep == 1
\* main.py:384  time.sleep(0.1), in units of 50 ms
PollSleep == 2

\* main.py:374-377, 384  loop test and first sample; HIGH: sleep(0.05) before
\* the second sample, LOW: sleep(0.1) before the next first sample
MonPollT ==
    /\ pc["mon"] = "mon_poll"
    /\ timer = 0
    /\ IF stop_event
       THEN Goto("mon", "done") /\ UNCHANGED timer
       ELSE IF inp.alarm = HIGH
       THEN Goto("mon", "mon_confirm") /\ timer' = ConfirmSleep
       ELSE UNCHANGED pc /\ timer' = PollSleep
    /\ UNCHANGED <<alarm_active, state_lock, ctrl_lock, pins, inp, queue,
                   stop_event, history, press_count, ops, ninv, nextid>>
    /\ UNCHANGED <<latest, boot, cleanups, held, hits, audioVars, uiVars>>

\* main.py:378-380, 384  second sample: HIGH is logged and trigger() is
\* called, LOW goes to the sleep(0.1) at the end of the loop body
MonConfirmT ==
    /\ pc["mon"] = "mon_confirm"
    /\ timer = 0
    /\ IF inp.alarm = HIGH
       THEN /\ ninv < MaxOps
            /\ history' = "hw-alarm-button"
            /\ Count("trigger")
            /\ ninv' = ninv + 1
            /\ hits' = hits + 1
            /\ Goto("mon", "t_lock")
            /\ UNCHANGED timer
       ELSE /\ Goto("mon", "mon_poll")
            /\ timer' = PollSleep
            /\ UNCHANGED <<history, ops, ninv, hits>>
    /\ UNCHANGED <<alarm_active, state_lock, ctrl_lock, pins, inp, queue,
                   stop_event, press_count, nextid>>
    /\ UNCHANGED <<latest, boot, cleanups, held, audioVars, uiVars>>

\* main.py:382-384  after trigger(): while the button is HIGH sleep(0.05) and
\* sample again; once it is LOW (or shutdown) sleep(0.1) and loop
MonReleaseT ==
    /\ pc["mon"] = "mon_rel"
    /\ timer = 0
    /\ IF inp.alarm = HIGH /\ ~stop_event
       THEN UNCHANGED pc /\ timer' = ConfirmSleep
       ELSE Goto("mon", "mon_poll") /\ timer' = PollSleep
    /\ UNCHANGED <<alarm_active, state_lock, ctrl_lock, pins, inp, queue,
                   stop_event, history, press_count, ops, ninv, nextid>>
    /\ UNCHANGED <<latest, boot, cleanups, held, hits, audioVars, uiVars>>

\* main.py:377, 383, 384  50 ms of a time.sleep of the monitor pass; the
\* level of the alarm button has not changed in them
Tick ==
    /\ timer > 0
    /\ timer' = timer - 1
    /\ held' = IF inp.alarm = HIGH
                THEN (IF held < MaxHeld THEN held + 1 ELSE held)
                ELSE 0
    /\ UNCHANGED <<alarm_active, state_lock, ctrl_lock, pins, inp, queue,
                   stop_event, history, pc, press_count, ops, ninv, nextid>>
    /\ UNCHANGED <<latest, boot, cleanups, hits, audioVars, uiVars>>

\* ------------------------------------------------------------ _wait_for_reset
\* main.py:304-305  loop test and first sample of the reset button
WaitPoll(w) ==
    /\ pc[w] = "w_poll"
    /\ stop_event \/ inp.reset = HIGH
    /\ Goto(w, IF stop_event THEN "off" ELSE "w_confirm")
    /\ press_count' = [press_count EXCEPT ![w] = IF stop_event THEN 0 ELSE @]
    /\ UNCHANGED <<alarm_active, state_lock, ctrl_lock, pins, inp, queue,
                   stop_event, history, ops, ninv, nextid>>
    /\ UNCHANGED <<latest, hwVars, audioVars>>

\* main.py:306-309  second sample after 50 ms; a confirmed press is counted
WaitConfirm(w) ==
    /\ pc[w] = "w_confirm"
    /\ IF inp.reset = HIGH
       THEN /\ press_count' = [press_count EXCEPT ![w] = @ + 1]
            /\ history' = "reset-button"
            /\ Goto(w, "w_rel")
       ELSE /\ Goto(w, "w_poll")
            /\ UNCHANGED <<press_count, history>>
    /\ UNCHANGED <<alarm_active, state_lock, ctrl_lock, pins, inp, queue,
                   stop_event, ops, ninv, nextid>>
    /\ UNCHANGED <<latest, hwVars, audioVars>>

\* a reset-wait thread that resets on the first press already
WaitRelease_ResetFirst(w) ==
    /\ pc[w] = "w_rel"
    /\ inp.reset = LOW \/ stop_event
    /\ Count("reset") /\ Goto(w, "r_put")
    /\ UNCHANGED <<alarm_active, state_lock, ctrl_lock, pins, inp, queue,
                   stop_event, history, press_count, ninv, nextid>>
    /\ UNCHANGED <<latest, hwVars, audioVars>>

\* main.py:311-317  once the button is released (or shutdown) the first press
\* calls mute(), a later one reset()
WaitRelease(w) ==
    /\ pc[w] = "w_rel"
    /\ inp.reset = LOW \/ stop_event
    /\ IF press_count[w] = 1
       THEN Count("mute") /\ Goto(w, "m_buz")
       ELSE Count("reset") /\ Goto(w, "r_put")
    /\ UNCHANGED <<alarm_active, state_lock, ctrl_lock, pins, inp, queue,
                   stop_event, history, press_count, ninv, nextid>>
    /\ UNCHANGED <<latest, hwVars, audioVars>>

\* a reset-wait thread that ends on the exception without calling reset()
WaitFails_Ends(w) ==
    /\ pc[w] \in {"w_poll", "w_confirm", "w_rel"}
    /\ pc[w] = "w_poll" => ~stop_event
    /\ Goto(w, "off")
    /\ press_count' = [press_count EXCEPT ![w] = 0]
    /\ UNCHANGED <<alarm_active, state_lock, ctrl_lock, pins, inp, queue,
                   stop_event, history, ops, ninv, nextid>>
    /\ UNCHANGED <<latest, hwVars, audioVars>>

\* main.py:305, 307, 311, 321-323  GPIO.input raises in the reset-wait
\* thread: the except clause logs and calls reset(), after which the thread
\* ends; at the loop head the stop flag is tested before the pin is read
WaitFails(w) ==
    /\ pc[w] \in {"w_poll", "w_confirm", "w_rel"}
    /\ pc[w] = "w_poll" => ~stop_event
    /\ raised' = raised \cup {w}
    /\ Count("reset")
    /\ Goto(w, "r_put")
    /\ UNCHANGED <<alarm_active, state_lock, ctrl_lock, pins, inp, queue,
                   stop_event, history, press_count, ninv, nextid>>
    /\ UNCHANGED <<latest, cleanups, timer, held, hits, boot, ap_lock, shown,
                   audioVars>>

\* ------------------------------------------------------------ status_led_loop
\* main.py:350-351  loop test, then with _state_lock
LedLock ==
    /\ pc["led"] = "l_top"
    /\ stop_event \/ state_lock = "free"
    /\ IF stop_event
       THEN Goto("led", "done") /\ UNCHANGED state_lock
       ELSE Goto("led", "l_read") /\ state_lock' = "led"
    /\ UNCHANGED <<alarm_active, ctrl_lock, pins, inp, queue, stop_event,
                   history, press_count, ops, ninv, nextid>>
    /\ UNCHANGED <<latest, hwVars, audioVars>>

\* The head of the loop once more, with the loop test and the wait for the
\* lock as steps of their own.
\* main.py:350  while not _stop_event.is_set()
LedTest ==
    /\ pc["led"] = "l_top"
    /\ Goto("led", IF stop_event THEN "done" ELSE "l_lock")
    /\ UNCHANGED <<queue, stop_event, history, nextid>>
    /\ UNCHANGED <<ctrlVars, audioVars>>

\* main.py:351  with _state_lock
LedTake ==
    /\ pc["led"] = "l_lock"
    /\ state_lock = "free"
    /\ state_lock' = "led"
    /\ Goto("led", "l_read")
    /\ UNCHANGED <<alarm_active, ctrl_lock, pins, inp, queue, stop_event,
                   history, press_count, ops, ninv, nextid>>
    /\ UNCHANGED <<latest, hwVars, audioVars>>

\* main.py:352-353  active = alarm_active, lock released; the value read is
\* kept in the position the loop goes to
LedRead ==
    /\ pc["led"] = "l_read"
    /\ state_lock' = "free"
    /\ Goto("led", IF alarm_active THEN "l_solid" ELSE "l_blink_on")
    /\ UNCHANGED <<alarm_active, ctrl_lock, pins, inp, queue, stop_event,
                   history, press_count, ops, ninv, nextid>>
    /\ UNCHANGED <<latest, hwVars, audioVars>>

\* a status loop that only waits while the alarm is Active
LedSolid_NoWrite ==
    /\ pc["led"] = "l_solid"
    /\ Goto("led", "l_top")
    /\ UNCHANGED <<alarm_active, state_lock, ctrl_lock, pins, inp, queue,
                   stop_event, history, press_count, ops, ninv, nextid>>
    /\ UNCHANGED <<latest, hwVars, audioVars>>

\* main.py:355-359  Active: indicator HIGH, sleep, next round
LedSolid ==
    /\ pc["led"] = "l_solid"
    /\ pins' = Output(pins, "led", HIGH)
    /\ Goto("led", "l_top")
    /\ UNCHANGED <<alarm_active, state_lock, ctrl_lock, inp, queue, stop_event,
                   history, press_count, ops, ninv, nextid>>
    /\ UNCHANGED <<latest, hwVars, audioVars>>

\* main.py:362-363  Idle: the short HIGH pulse of the blink
LedBlinkOn ==
    /\ pc["led"] = "l_blink_on"
    /\ pins' = Output(pins, "led", HIGH)
    /\ Goto("led", "l_blink_off")
    /\ UNCHANGED <<alarm_active, state_lock, ctrl_lock, inp, queue, stop_event,
                   history, press_count, ops, ninv, nextid>>
    /\ UNCHANGED <<latest, hwVars, audioVars>>

\* main.py:364-370  ... then LOW, and the long pause (30 ticks, each testing
\* the shutdown flag) before the next round
LedBlinkOff ==
    /\ pc["led"] = "l_blink_off"
    /\ pins' = Output(pins, "led", LOW)
    /\ Goto("led", "l_top")
    /\ UNCHANGED <<alarm_active, state_lock, ctrl_lock, inp, queue, stop_event,
                   history, press_count, ops, ninv, nextid>>
    /\ UNCHANGED <<latest, hwVars, audioVars>>

\* ------------------------------------------------------------ the buttons
\* the raw level of an input pin changes (main.py:106 / RPi.GPIO input)
AlarmButton ==
    /\ inp' = [inp EXCEPT !.alarm = 1 - @]
    /\ held' = 0
    /\ hits' = 0
    /\ UNCHANGED <<alarm_active, state_lock, ctrl_lock, pins, queue, stop_event,
                   history, pc, press_count, ops, ninv, nextid>>
    /\ UNCHANGED <<latest, boot, cleanups, timer, audioVars, uiVars>>

ResetButton ==
    /\ inp' = [inp EXCEPT !.reset = 1 - @]
    /\ UNCHANGED <<alarm_active, state_lock, ctrl_lock, pins, queue, stop_event,
                   history, pc, press_count, ops, ninv, nextid>>
    /\ UNCHANGED <<latest, hwVars, audioVars>>

\* ------------------------------------------------------------ SoundPlayer
\* a player process started by Popen; "cut" is the file of the running
\* process that play() terminated to start this one, "none" if there was none
Process(f, c) == [file |-> f, alive |-> TRUE, cut |-> c]
Running(p) == p # <<>> /\ p[1].alive

\* audio.py:73  os.path.exists(filepath) inside SoundPlayer.play
PlayerFileExists(f) == f \in ExistingFiles

\* play() that starts the new process without terminating the running one
Interrupt_None(p) == p

\* audio.py:77-83  play(interrupt=True): a running process is terminated
\* (terminate() is taken to end the process: it is no longer playing)
Interrupt(p) == IF Running(p) THEN <<[p[1] EXCEPT !.alive = FALSE]>> ELSE p

\* audio.py:100-107  SoundPlayer.stop
PlayerStop(p) == IF Running(p) THEN <<[p[1] EXCEPT !.alive = FALSE]>> ELSE p

\* audio.py:68-98  SoundPlayer.play(filepath, interrupt=True): the values of
\* _proc and of the processes left running without a handle
PlayerPlay(p, o, f) ==
    IF ~PlayerFileExists(f) THEN [proc |-> p, orphans |-> o]
    ELSE LET q == Interrupt(p) IN
         [proc |-> <<Process(f, IF Running(p) THEN p[1].file ELSE "none")>>,
          orphans |-> IF Running(q) THEN o \cup {q[1].file} ELSE o]

\* the player process ends by itself at the end of the sound file
ProcExit ==
    /\ Running(proc)
    /\ proc' = <<[proc[1] EXCEPT !.alive = FALSE]>>
    /\ UNCHANGED <<queue, stop_event, history, pc, nextid, audio_playing,
                   player, orphans, cur, volume, executed>>
    /\ UNCHANGED ctrlVars

\* ------------------------------------------------------------ AudioWorker.run
\* main.py:209-217  the SoundPlayer is constructed ...
AwInit ==
    /\ pc["aw"] = "aw_init"
    /\ player' = "ok"
    /\ Goto("aw", "aw_loop")
    /\ UNCHANGED <<queue, stop_event, history, nextid, audio_playing, proc,
                   orphans, cur, volume, executed>>
    /\ UNCHANGED ctrlVars

\* ... or cannot be (no SoundPlayer class, or its constructor raises)
AwInitFail ==
    /\ pc["aw"] = "aw_init"
    /\ player' = "none"
    /\ Goto("aw", "aw_loop")
    /\ UNCHANGED <<queue, stop_event, history, nextid, audio_playing, proc,
                   orphans, cur, volume, executed>>
    /\ UNCHANGED ctrlVars

\* a worker that takes the backend to be there whatever the start gave
HasPlayer_Always == TRUE

\* main.py:231, 244, 268  "if self.player": the backend object exists
HasPlayer == player = "ok"

\* a queue handing out the newest item first
QueueGet_Last(q) == [item |-> q[Len(q)], rest |-> SubSeq(q, 1, Len(q) - 1)]

\* main.py:152, 221  queue.Queue.get: the item taken and the items left
QueueGet(q) == [item |-> Head(q), rest |-> Tail(q)]

\* a worker that does not test the file
FileExists_Always(f) == TRUE

\* main.py:227  os.path.exists(filepath) in the worker
FileExists(f) == f \in ExistingFiles

\* main.py:219  while not _stop_event.is_set()
AwLoopTest ==
    /\ pc["aw"] = "aw_loop"
    /\ Goto("aw", IF stop_event THEN "aw_cleanup" ELSE "aw_get")
    /\ UNCHANGED <<queue, stop_event, history, nextid>>
    /\ UNCHANGED <<ctrlVars, audioVars>>

\* main.py:220-223  cmd_queue.get(timeout=0.5): the next command, or back to
\* the loop test when the queue stayed empty
AwGet ==
    /\ pc["aw"] = "aw_get"
    /\ IF queue = <<>>
       THEN /\ Goto("aw", "aw_loop")
            /\ UNCHANGED <<queue, cur, executed>>
       ELSE /\ cur' = QueueGet(queue).item
            /\ queue' = QueueGet(queue).rest
            /\ executed' = Append(executed, QueueGet(queue).item.id)
            /\ Goto("aw", "aw_cmd")
    /\ UNCHANGED <<stop_event, history, nextid, audio_playing, player, proc,
                   orphans, volume>>
    /\ UNCHANGED ctrlVars

\* main.py:225-234, 240-242  "play": a missing file is logged and dropped;
\* with a player the flag is set under audio_playing_lock; without one the
\* failure is logged
AwPlayCmd ==
    /\ pc["aw"] = "aw_cmd"
    /\ cur.cmd = "play"
    /\ IF ~FileExists(cur.arg)
       THEN /\ history' = "mp3-missing"
            /\ Goto("aw", "aw_loop")
            /\ UNCHANGED audio_playing
       ELSE IF HasPlayer
       THEN /\ audio_playing' = TRUE
            /\ Goto("aw", "aw_play")
            /\ UNCHANGED history
       ELSE /\ history' = "no-player"
            /\ Goto("aw", "aw_loop")
            /\ UNCHANGED audio_playing
    /\ UNCHANGED <<queue, stop_event, nextid, player, proc, orphans, cur,
                   volume, executed>>
    /\ UNCHANGED ctrlVars

\* main.py:236, 188-204  _safe_play: player.play(filepath, interrupt=True),
\* which returns as soon as the process is started
AwPlay ==
    /\ pc["aw"] = "aw_play"
    /\ proc' = PlayerPlay(proc, orphans, cur.arg).proc
    /\ orphans' = PlayerPlay(proc, orphans, cur.arg).orphans
    /\ Goto("aw", "aw_play_fin")
    /\ UNCHANGED <<queue, stop_event, history, nextid, audio_playing, player,
                   cur, volume, executed>>
    /\ UNCHANGED ctrlVars

\* main.py:237-239  finally: audio_playing = False
AwPlayFin ==
    /\ pc["aw"] = "aw_play_fin"
    /\ audio_playing' = FALSE
    /\ Goto("aw", "aw_loop")
    /\ UNCHANGED <<queue, stop_event, history, nextid, player, proc, orphans,
                   cur, volume, executed>>
    /\ UNCHANGED ctrlVars

\* main.py:243-252  "stop": player.stop() when there is a player
AwStop ==
    /\ pc["aw"] = "aw_cmd"
    /\ cur.cmd = "stop"
    /\ proc' = IF HasPlayer THEN PlayerStop(proc) ELSE proc
    /\ Goto("aw", "aw_stop_fin")
    /\ UNCHANGED <<queue, stop_event, history, nextid, audio_playing, player,
                   orphans, cur, volume, executed>>
    /\ UNCHANGED ctrlVars

\* main.py:253-255  audio_playing = False, history
AwStopFin ==
    /\ pc["aw"] = "aw_stop_fin"
    /\ audio_playing' = FALSE
    /\ history' = "audio-stopped"
    /\ Goto("aw", "aw_loop")
    /\ UNCHANGED <<queue, stop_event, nextid, player, proc, orphans, cur,
                   volume, executed>>
    /\ UNCHANGED ctrlVars

\* ------------------------------------------------------------ the worker's lock
\* The writes of audio_playing once more, with audio_playing_lock taken and
\* released in steps of their own: the worker waits at "aw_set_lock",
\* "aw_play_fin" and "aw_stop_fin" until the lock is free.
\* main.py:225-232, 240-242  "play" up to the with statement
AwPlayCmdL ==
    /\ pc["aw"] = "aw_cmd"
    /\ cur.cmd = "play"
    /\ IF ~FileExists(cur.arg)
       THEN history' = "mp3-missing" /\ Goto("aw", "aw_loop")
       ELSE IF HasPlayer
       THEN Goto("aw", "aw_set_lock") /\ UNCHANGED history
       ELSE history' = "no-player" /\ Goto("aw", "aw_loop")
    /\ UNCHANGED <<queue, stop_event, nextid>>
    /\ UNCHANGED <<ctrlVars, audioVars>>

\* where the worker goes on once it holds the lock
FlagStep(l) ==
    CASE l = "aw_set_lock" -> "aw_set"
      [] l = "aw_play_fin" -> "aw_pf_clear"
      [] l = "aw_stop_fin" -> "aw_sf_clear"
FlagWaits == {"aw_set_lock", "aw_play_fin", "aw_stop_fin"}

\* main.py:233, 238, 253  with audio_playing_lock
AwFlagLock ==
    /\ pc["aw"] \in FlagWaits
    /\ ap_lock = "free"
    /\ ap_lock' = "aw"
    /\ Goto("aw", FlagStep(pc["aw"]))
    /\ UNCHANGED <<alarm_active, state_lock, ctrl_lock, pins, inp, queue,
                   stop_event, history, press_count, ops, ninv, nextid>>
    /\ UNCHANGED <<latest, cleanups, timer, held, hits, boot, shown,
                   audioVars>>
    /\ UNCHANGED raised

\* main.py:234  audio_playing = True, lock released
AwFlagSet ==
    /\ pc["aw"] = "aw_set"
    /\ audio_playing' = TRUE
    /\ ap_lock' = "free"
    /\ Goto("aw", "aw_play")
    /\ UNCHANGED <<alarm_active, state_lock, ctrl_lock, pins, inp, queue,
                   stop_event, history, press_count, ops, ninv, nextid>>
    /\ UNCHANGED <<latest, cleanups, timer, held, hits, boot, shown>>
    /\ UNCHANGED <<player, proc, orphans, cur, volume, executed>>
    /\ UNCHANGED raised

\* main.py:239, 254-255  audio_playing = False, lock released; after a stop
\* the history entry
AwFlagClear ==
    /\ pc["aw"] \in {"aw_pf_clear", "aw_sf_clear"}
    /\ audio_playing' = FALSE
    /\ ap_lock' = "free"
    /\ history' = IF pc["aw"] = "aw_sf_clear" THEN "audio-stopped" ELSE history
    /\ Goto("aw", "aw_loop")
    /\ UNCHANGED <<alarm_active, state_lock, ctrl_lock, pins, inp, queue,
                   stop_event, press_count, ops, ninv, nextid>>
    /\ UNCHANGED <<latest, cleanups, timer, held, hits, boot, shown>>
    /\ UNCHANGED <<player, proc, orphans, cur, volume, executed>>
    /\ UNCHANGED raised

\* the characters of the arguments the model draws
ArgText(a) ==
    CASE a = "-1" -> <<"-", "1">>
      [] a = "0" -> <<"0">>
      [] a = "50" -> <<"5", "0">>
      [] a = "100" -> <<"1", "0", "0">>
      [] a = "101" -> <<"1", "0", "1">>
      [] a = "+7" -> <<"+", "7">>
      [] a = "-" -> <<"-">>
      [] a = "5.5" -> <<"5", ".", "5">>
      [] OTHER -> <<a>>
DigitVal(c) ==
    CASE c = "0" -> 0 [] c = "1" -> 1 [] c = "2" -> 2 [] c = "3" -> 3
      [] c = "4" -> 4 [] c = "5" -> 5 [] c = "6" -> 6 [] c = "7" -> 7
      [] c = "8" -> 8 [] c = "9" -> 9 [] OTHER -> -1
IsDigits(s) == s # <<>> /\ \A i \in 1..Len(s) : DigitVal(s[i]) >= 0
RECURSIVE DecVal(_)
DecVal(s) ==
    IF s = <<>> THEN 0
    ELSE 10 * DecVal(SubSeq(s, 1, Len(s) - 1)) + DigitVal(s[Len(s)])
Signed(s) == s # <<>> /\ s[1] \in {"-", "+"}
\* main.py:258  int(arg) of a string: an optional sign and decimal digits;
\* anything else raises ValueError
ParsesAsInt(a) ==
    LET s == ArgText(a) IN IsDigits(IF Signed(s) THEN Tail(s) ELSE s)
IntOf(a) ==
    LET s == ArgText(a) IN
    IF Signed(s)
    THEN (IF s[1] = "-" THEN -1 ELSE 1) * DecVal(Tail(s))
    ELSE DecVal(s)
Min(a, b) == IF a < b THEN a ELSE b
Max(a, b) == IF a > b THEN a ELSE b
\* a volume helper that hands the number on as it is
ClampPercent_AsIs(n) == n
\* main.py:169  percent = max(0, min(100, int(percent)))
ClampPercent(n) == Max(0, Min(100, n))

\* main.py:256-261, 167-175  "set_volume": int(arg) raising is caught by the
\* worker (260); amixer is run with the clamped percent, and when running it
\* raises, set_system_volume catches that itself (174) and the worker goes on
\* as after a success
AwSetVolume ==
    /\ pc["aw"] = "aw_cmd"
    /\ cur.cmd = "set_volume"
    /\ IF ParsesAsInt(cur.arg)
       THEN /\ \E ran \in BOOLEAN :
                   volume' = IF ran THEN ClampPercent(IntOf(cur.arg))
                             ELSE volume
            /\ history' = "volume-set"
       ELSE UNCHANGED <<volume, history>>
    /\ Goto("aw", "aw_loop")
    /\ UNCHANGED <<queue, stop_event, nextid, audio_playing, player, proc,
                   orphans, cur, executed>>
    /\ UNCHANGED ctrlVars

\* main.py:262-264  "exit": leave the loop
AwExit ==
    /\ pc["aw"] = "aw_cmd"
    /\ cur.cmd = "exit"
    /\ Goto("aw", "aw_cleanup")
    /\ UNCHANGED <<queue, stop_event, history, nextid, audio_playing, player,
                   proc, orphans, cur, volume, executed>>
    /\ UNCHANGED ctrlVars

\* a worker that leaves a running playback alone when it ends
AwCleanup_NoStop ==
    /\ pc["aw"] = "aw_cleanup"
    /\ audio_playing' = FALSE
    /\ Goto("aw", "done")
    /\ UNCHANGED <<queue, stop_event, history, nextid, player, proc, orphans,
                   cur, volume, executed>>
    /\ UNCHANGED ctrlVars

\* main.py:266-276  after the loop: player.stop(), audio_playing = False
AwCleanup ==
    /\ pc["aw"] = "aw_cleanup"
    /\ proc' = IF HasPlayer THEN PlayerStop(proc) ELSE proc
    /\ audio_playing' = FALSE
    /\ Goto("aw", "done")
    /\ UNCHANGED <<queue, stop_event, history, nextid, player, orphans, cur,
                   volume, executed>>
    /\ UNCHANGED ctrlVars

\* ------------------------------------------------------------ producers
\* main.py:298  a trigger() puts ("play", ALARM_MP3); ALARM_MP3 is whatever
\* path the settings hold (main.py:70, 621)
EnqueuePlay(f) ==
    /\ nextid <= MaxCmds
    /\ queue' = Put(queue, "play", f)
    /\ nextid' = nextid + 1
    /\ UNCHANGED <<stop_event, history, pc>>
    /\ UNCHANGED <<ctrlVars, audioVars>>

\* main.py:330, 335  mute() and reset() put ("stop", None)
EnqueueStop ==
    /\ nextid <= MaxCmds
    /\ queue' = Put(queue, "stop", "none")
    /\ nextid' = nextid + 1
    /\ UNCHANGED <<stop_event, history, pc>>
    /\ UNCHANGED <<ctrlVars, audioVars>>

\* main.py:256-258  a ("set_volume", arg) command as the worker accepts it
EnqueueSetVolume(a) ==
    /\ nextid <= MaxCmds
    /\ queue' = Put(queue, "set_volume", a)
    /\ nextid' = nextid + 1
    /\ UNCHANGED <<stop_event, history, pc>>
    /\ UNCHANGED <<ctrlVars, audioVars>>

\* main.py:641-644  AlarmApp.on_exit: _stop_event.set()
UiExit ==
    /\ pc["ui"] = "ui_idle"
    /\ stop_event' = TRUE
    /\ Goto("ui", "x_put")
    /\ UNCHANGED <<queue, history, nextid>>
    /\ UNCHANGED <<ctrlVars, audioVars>>

\* main.py:645-647  audio_cmd_q.put(("exit", None)), root.quit()
UiExitPut ==
    /\ pc["ui"] = "x_put"
    /\ queue' = Put(queue, "exit", "none")
    /\ nextid' = nextid + 1
    /\ Goto("ui", "ui_quit")
    /\ UNCHANGED <<stop_event, history>>
    /\ UNCHANGED <<ctrlVars, audioVars>>

\* ------------------------------------------------------------ shutdown
\* main.py:706-708  signal_handler, run by the main thread while it is in
\* root.mainloop(): _stop_event.set()
SigSet ==
    /\ pc["ui"] = "ui_idle"
    /\ stop_event' = TRUE
    /\ Goto("ui", "s_put")
    /\ UNCHANGED <<queue, history, nextid>>
    /\ UNCHANGED <<ctrlVars, audioVars>>

\* main.py:709-710  audio_cmd_q.put(("exit", None)), _safe_quit_tk()
SigPut ==
    /\ pc["ui"] = "s_put"
    /\ queue' = Put(queue, "exit", "none")
    /\ nextid' = nextid + 1
    /\ Goto("ui", "s_cleanup")
    /\ UNCHANGED <<stop_event, history>>
    /\ UNCHANGED <<ctrlVars, audioVars>>

\* main.py:706-708  the handler is run by the main thread between two of
\* its instructions, so also in the middle of update_ui, with the lock of a
\* with block held
SigSetInside ==
    /\ pc["ui"] \in {"u_read", "u_aread"}
    /\ stop_event' = TRUE
    /\ Goto("ui", "s_put")
    /\ UNCHANGED <<queue, history, nextid>>
    /\ UNCHANGED <<ctrlVars, audioVars>>

\* the lock once the with blocks of thread t have been left
Unwound(lock, t) == IF lock = t THEN "free" ELSE lock

\* main.py:711-720  sleep, GPIO.cleanup(), then sys.exit(0): the SystemExit
\* leaves the with block the handler interrupted, if any, and
\* root.mainloop() (main.py:754), and main()'s finally runs
SigCleanup ==
    /\ pc["ui"] = "s_cleanup"
    /\ cleanups' = cleanups + 1
    /\ state_lock' = Unwound(state_lock, "ui")
    /\ ctrl_lock' = Unwound(ctrl_lock, "ui")
    /\ ap_lock' = Unwound(ap_lock, "ui")
    /\ Goto("ui", "ui_quit")
    /\ UNCHANGED <<timer, held, hits, boot, shown>>
    /\ UNCHANGED <<alarm_active, pins, inp, press_count, ops, ninv, latest>>
    /\ UNCHANGED <<queue, stop_event, history, nextid, audioVars>>
    /\ UNCHANGED raised

\* main.py:754-756  root.mainloop() ends with an exception (KeyboardInterrupt
\* is caught, anything else goes on up after the finally)
MainRaise ==
    /\ pc["ui"] = "ui_idle"
    /\ Goto("ui", "ui_quit")
    /\ UNCHANGED <<queue, stop_event, history, nextid>>
    /\ UNCHANGED <<ctrlVars, audioVars>>

\* main.py:757-758  finally: _stop_event.set()
MainFinSet ==
    /\ pc["ui"] = "ui_quit"
    /\ stop_event' = TRUE
    /\ Goto("ui", "f_put")
    /\ UNCHANGED <<queue, history, nextid>>
    /\ UNCHANGED <<ctrlVars, audioVars>>

\* main.py:759  audio_cmd_q.put(("exit", None))
MainFinPut ==
    /\ pc["ui"] = "f_put"
    /\ queue' = Put(queue, "exit", "none")
    /\ nextid' = nextid + 1
    /\ Goto("ui", "f_cleanup")
    /\ UNCHANGED <<stop_event, history>>
    /\ UNCHANGED <<ctrlVars, audioVars>>

\* main.py:760-765  sleep, GPIO.cleanup(); main() returns
MainFinCleanup ==
    /\ pc["ui"] = "f_cleanup"
    /\ cleanups' = cleanups + 1
    /\ Goto("ui", "exited")
    /\ UNCHANGED <<timer, held, hits, boot, uiVars>>
    /\ UNCHANGED <<alarm_active, state_lock, ctrl_lock, pins, inp, press_count,
                   ops, ninv, latest>>
    /\ UNCHANGED <<queue, stop_event, history, nextid, audioVars>>

\* ------------------------------------------------------------ specifications
Trigger(t) == TrigLock(t) \/ TrigStateLock(t) \/ TrigCheck(t) \/ TrigBuz(t)
                 \/ TrigLed(t) \/ TrigPut(t) \/ TrigStart(t)
Mute(t) == MuteBuz(t) \/ MutePut(t)
Reset(t) == ResetPut(t) \/ ResetBuz(t) \/ ResetLed(t) \/ ResetStateLock(t)
               \/ ResetClear(t)
Monitor == MonPoll \/ MonConfirm \/ MonRelease
Waiter(w) == WaitPoll(w) \/ WaitConfirm(w) \/ WaitRelease(w)
StatusLed == LedLock \/ LedRead \/ LedSolid \/ LedBlinkOn \/ LedBlinkOff
Buttons == AlarmButton \/ ResetButton

\* the hardware path alone: alarm button, monitor, reset button, reset-wait
NextHW ==
    \/ Monitor
    \/ Buttons
    \/ \E w \in Waiters : Waiter(w)
    \/ \E t \in {"mon"} : Trigger(t)
    \/ \E t \in Waiters : Mute(t) \/ Reset(t)
SpecHW == Init /\ [][NextHW]_vars

\* the controller and all its callers, without the status LED loop
NextRace ==
    \/ UiSimulate \/ UiMute \/ UiReset
    \/ Monitor
    \/ Buttons
    \/ \E w \in Waiters : Waiter(w)
    \/ \E t \in {"ui", "mon"} : Trigger(t)
    \/ \E t \in Callers : Mute(t) \/ Reset(t)
SpecRace == Init /\ [][NextRace]_vars

\* the hardware path and the status LED loop, every thread scheduled fairly
NextIndicator == NextHW \/ StatusLed
FairHW ==
    /\ WF_vars(Monitor \/ Trigger("mon"))
    /\ \A w \in Waiters : WF_vars(Waiter(w) \/ Mute(w) \/ Reset(w))
    /\ WF_vars(StatusLed)
SpecIndicator == Init /\ [][NextIndicator]_vars /\ FairHW

\* the module start, and after it the threads of the hardware path
InitBoot ==
    /\ InitRest
    /\ boot = [step |-> "select", gpio |-> "unset", pinsup |-> 0,
               failed |-> FALSE]
Booted == boot.step = "done"
Boot == BootSelectReal \/ BootSelectFails \/ BootSelectMock \/ BootSetup
           \/ BootSetupFails
NextBoot ==
    \/ Boot
    \/ Booted /\ NextHW
SpecBoot == InitBoot /\ [][NextBoot]_vars

\* the controller and all its callers, with GPIO writes that may fail
NextFault ==
    \/ NextRace
    \/ \E t \in Callers : WriteFails(t)
SpecFault == Init /\ [][NextFault]_vars

\* the controller, its callers and the status LED loop
NextCtrl == NextRace \/ StatusLed
SpecCtrl == Init /\ [][NextCtrl]_vars

\* the AudioWorker and the SoundPlayer under arbitrary producers
AudioWorker == AwLoopTest \/ AwGet \/ AwPlayCmd \/ AwPlay \/ AwPlayFin \/ AwStop
                  \/ AwStopFin \/ AwExit \/ AwCleanup
NextAudio ==
    \/ AwInit \/ AwInitFail
    \/ AudioWorker
    \/ ProcExit
    \/ \E f \in Files : EnqueuePlay(f)
    \/ EnqueueStop
    \/ UiExit \/ UiExitPut
SpecAudio == Init /\ [][NextAudio]_vars

\* the AudioWorker under arbitrary producers, volume commands included
NextAudioVol ==
    \/ NextAudio
    \/ AwSetVolume
    \/ \E a \in VolumeArgs : EnqueueSetVolume(a)
SpecAudioVol == Init /\ [][NextAudioVol]_vars

\* the AudioWorker taking volume commands alone
NextVolume ==
    \/ AwInit
    \/ AwLoopTest \/ AwGet \/ AwSetVolume
    \/ \E a \in VolumeInputs : EnqueueSetVolume(a)
SpecVolume == Init /\ [][NextVolume]_vars

\* the three ways the main thread ends the program
SignalHandler == SigSet \/ SigPut \/ SigCleanup
MainFinally == MainFinSet \/ MainFinPut \/ MainFinCleanup
Shutdown == UiExit \/ UiExitPut \/ SignalHandler \/ MainRaise \/ MainFinally

\* the AudioWorker and the main thread ending the program in any of the ways
NextExit ==
    \/ AwInit \/ AwInitFail
    \/ AudioWorker
    \/ ProcExit
    \/ \E f \in Files : EnqueuePlay(f)
    \/ EnqueueStop
    \/ Shutdown
SpecExit == Init /\ [][NextExit]_vars

\* the alarm button and the monitor in time: the button is pressed and
\* released at any moment, as long as the monitor has calls of trigger() left
PressesLeft == inp.alarm = LOW => ninv < MaxOps
TimedMonitor == MonPollT \/ MonConfirmT \/ MonReleaseT
NextDebounce ==
    \/ TimedMonitor
    \/ Tick
    \/ PressesLeft /\ AlarmButton
    \/ \E t \in {"mon"} : Trigger(t)
SpecDebounce == Init /\ [][NextDebounce]_vars

\* the alarm button can be pressed as long as the monitor has confirmed
\* fewer than MaxAlarms presses
AlarmsLeft == inp.alarm = LOW => ninv < MaxAlarms
\* every background thread on the hardware path, with a working sound
\* backend, and the shutdown request (flag, then exit item) made at any moment
NextShutdown ==
    \/ Monitor
    \/ (AlarmsLeft /\ AlarmButton) \/ ResetButton
    \/ \E w \in Waiters : Waiter(w)
    \/ \E t \in {"mon"} : Trigger(t)
    \/ \E t \in Waiters : Mute(t) \/ Reset(t)
    \/ StatusLed
    \/ AwInit
    \/ AudioWorker
    \/ UiExit \/ UiExitPut
\* every thread that can take a step eventually takes one
FairThreads ==
    /\ WF_vars(Monitor \/ Trigger("mon"))
    /\ \A w \in Waiters : WF_vars(Waiter(w) \/ Mute(w) \/ Reset(w))
    /\ WF_vars(StatusLed)
    /\ WF_vars(AwInit \/ AudioWorker)
SpecShutdown == Init /\ [][NextShutdown]_vars /\ FairThreads

\* the controller called by the monitor, the reset-wait threads and the UI's
\* reset button, with the AudioWorker taking the commands they put
NextSound ==
    \/ Monitor
    \/ (AlarmsLeft /\ AlarmButton) \/ ResetButton
    \/ \E w \in Waiters : Waiter(w)
    \/ \E t \in {"mon"} : Trigger(t)
    \/ \E t \in Waiters : Mute(t)
    \/ \E t \in Waiters \cup {"ui"} : Reset(t)
    \/ UiReset
    \/ AwInit
    \/ AwLoopTest \/ AwGet \/ AwPlayCmd \/ AwPlay \/ AwPlayFin \/ AwStop
    \/ AwStopFin
    \/ ProcExit
SpecSound == Init /\ [][NextSound]_vars

\* every kind of thread that takes a lock: trigger() from the monitor and
\* the UI, reset() from the UI, the status LED loop, the UI refresh and the
\* AudioWorker with its lock taken step by step; the UI starts an operation
\* as long as at most MaxAlarms have been invoked
UiRefresh == UiRefreshStart \/ UiRefreshLock \/ UiRefreshRead
                \/ UiRefreshAudioLock \/ UiRefreshAudioRead
AudioWorkerL == AwLoopTest \/ AwGet \/ AwPlayCmdL \/ AwFlagLock \/ AwFlagSet
                   \/ AwPlay \/ AwStop \/ AwFlagClear
UiOpsLeft == ninv < MaxAlarms + 1
NextLocks ==
    \/ (UiOpsLeft /\ (UiSimulate \/ UiReset))
    \/ UiRefresh
    \/ Monitor
    \/ (AlarmsLeft /\ AlarmButton)
    \/ \E t \in {"ui", "mon"} : Trigger(t)
    \/ \E t \in {"ui"} : Reset(t)
    \/ StatusLed
    \/ AwInit
    \/ AudioWorkerL
SpecLocks == Init /\ [][NextLocks]_vars

\* the steps of one thread
StepOf(t) ==
    \/ Trigger(t) \/ Mute(t) \/ Reset(t)
    \/ t = "ui" /\ UiRefresh
    \/ t = "mon" /\ Monitor
    \/ t \in Waiters /\ Waiter(t)
    \/ t = "led" /\ StatusLed
    \/ t = "aw" /\ (AwInit \/ AudioWorkerL)

\* the threads that use the pins, the UI refresh, and the main thread
\* ending the program in any of the ways
StatusLedT == LedTest \/ LedTake \/ LedRead \/ LedSolid \/ LedBlinkOn
                 \/ LedBlinkOff
NextRelease ==
    \/ Monitor
    \/ (AlarmsLeft /\ AlarmButton) \/ ResetButton
    \/ \E w \in Waiters : Waiter(w)
    \/ \E t \in {"mon"} : Trigger(t)
    \/ \E t \in Waiters : Mute(t) \/ Reset(t)
    \/ StatusLedT
    \/ UiRefresh
    \/ Shutdown \/ SigSetInside
SpecRelease == Init /\ [][NextRelease]_vars

\* the controller and all its callers, with reads of the reset pin that may
\* fail
NextResetFail ==
    \/ NextRace
    \/ \E w \in Waiters : WaitFails(w)
SpecResetFail == Init /\ [][NextResetFail]_vars

\* the whole program
Next ==
    \/ NextCtrl
    \/ NextAudio
    \/ AwSetVolume
    \/ \E a \in VolumeArgs : EnqueueSetVolume(a)
    \/ Shutdown
Spec == Init /\ [][Next]_vars

\* ------------------------------------------------------------ observations
OpLabels == {"t_lock", "t_slock", "t_check", "t_buz", "t_led", "t_put",
             "t_start", "m_buz", "m_put", "r_put", "r_buz", "r_led",
             "r_slock", "r_clear"}
\* no controller operation is in progress
Quiet == \A t \in Callers : pc[t] \notin OpLabels
\* ... and no reset-wait thread is between confirming a press and acting on it
Settled == Quiet /\ \A w \in Waiters : pc[w] # "w_rel"
\* a trigger() that has set alarm_active and has not returned yet
Triggering == \E t \in Callers : pc[t] \in {"t_buz", "t_led", "t_put", "t_start"}
LiveWaiters == {w \in Waiters : pc[w] # "off"}
\* the acknowledgment counter: press_count of the reset-wait thread of the
\* latest activation, 0 once that thread has ended
Counter ==
    IF latest = "none" THEN 0
    ELSE IF pc[latest] = "off" THEN 0 ELSE press_count[latest]
QueueCmds == [i \in 1..Len(queue) |-> queue[i].cmd]
\* the commands of complete activations: play, stop (mute), stop (reset)
Cycle == <<"play", "stop", "stop">>
InCycles == \A i \in 1..Len(queue) : queue[i].cmd = Cycle[((i - 1) % 3) + 1]

\* ------------------------------------------------------------ C1
\* C1: a trigger() that finds the alarm Active enqueues no command, starts no
\* reset-wait thread, writes no pin and leaves alarm_active as it is: it
\* only logs and returns to its caller.
C1_IdempotentTrigger ==
    [][\A t \in {"ui", "mon"} :
         (pc[t] = "t_check" /\ alarm_active /\ pc'[t] # "t_check")
         => /\ queue' = queue
            /\ pins' = pins
            /\ alarm_active' = alarm_active
            /\ LiveWaiters' = LiveWaiters
            /\ press_count' = press_count
            /\ pc'[t] = Ret(t, "trigger")
            /\ history' = "trigger-ignored"]_vars
\* an ignored trigger has happened while the alarm is still Active
C1_Witness == alarm_active /\ history = "trigger-ignored" /\ Len(queue) = 1

\* ------------------------------------------------------------ C2
AfterTrigger ==
    /\ latest # "none"
    /\ pc[IF latest = "none" THEN "w1" ELSE latest] \in {"w_poll", "w_confirm"}
    /\ Counter = 0
AfterFirstPress ==
    /\ latest # "none"
    /\ pc[IF latest = "none" THEN "w1" ELSE latest] \in {"w_poll", "w_confirm"}
    /\ Counter = 1
AfterSecondPress ==
    /\ latest # "none"
    /\ pc[IF latest = "none" THEN "w1" ELSE latest] = "off"
    /\ ~Triggering
C3_CounterResetOnIdle ==
    (~alarm_active /\ Settled) => \A w \in Waiters : press_count[w] = 0

\* ------------------------------------------------------------ C4
\* C4: whenever no controller operation is in progress and no confirmed
\* press is waiting to be acted on, the buzzer is HIGH exactly if the alarm is Active and the acknowledgment counter is 0.
C4_BuzzerMirrorsState ==
    Settled => ((pins.buz = HIGH) <=> (alarm_active /\ Counter = 0))

\* ------------------------------------------------------------ C5
\* C5: whenever the alarm is Active and no controller operation is in
\* progress (trigger() has returned, no reset() is under way), the
\* indicator is HIGH.
C5_IndicatorSolidWhileActive ==
    (alarm_active /\ Settled) => pins.led = HIGH

\* ------------------------------------------------------------ C6
\* the operations run one at a time (main.py:283-299, 325-343)
SerialStep(st, op) ==
    IF op = "trigger"
    THEN IF st.active THEN st
         ELSE [active |-> TRUE, buz |-> HIGH, led |-> HIGH,
               cmds |-> Append(st.cmds, "play")]
    ELSE IF op = "mute"
    THEN [st EXCEPT !.buz = LOW, !.cmds = Append(@, "stop")]
    ELSE [active |-> FALSE, buz |-> LOW, led |-> LOW,
          cmds |-> Append(st.cmds, "stop")]
RECURSIVE SerialOutcomes(_, _)
\* the results of running c.trigger, c.mute and c.reset operations from st
\* one at a time, in every order
SerialOutcomes(c, st) ==
    IF c.trigger + c.mute + c.reset = 0 THEN {st}
    ELSE UNION {SerialOutcomes([c EXCEPT ![op] = @ - 1], SerialStep(st, op)) :
                   op \in {o \in {"trigger", "mute", "reset"} : c[o] > 0}}
SerialInit == [active |-> FALSE, buz |-> LOW, led |-> LOW, cmds |-> <<>>]
\* C6: whenever all invoked operations have returned, the alarm state, both
\* outputs and the commands enqueued equal the result of running the same
\* operations one at a time in some order.
C6_Serializable ==
    Quiet => [active |-> alarm_active, buz |-> pins.buz, led |-> pins.led,
              cmds |-> QueueCmds] \in SerialOutcomes(ops, SerialInit)

\* ------------------------------------------------------------ C7
\* the worker is between taking a command and finishing it
AwBusy == pc["aw"] \in {"aw_cmd", "aw_play", "aw_play_fin", "aw_stop_fin"}
\* C7: the commands are taken in the order they were put, none skipped and
\* none twice: the k-th command taken is the k-th command put, the commands
\* still queued are the following ones in order, and a command is taken only
\* when the one before it is finished.
C7_FifoOnce ==
    /\ [](/\ \A i \in 1..Len(executed) : executed[i] = i
          /\ \A i \in 1..Len(queue) : queue[i].id = Len(executed) + i
          /\ AwBusy => (Len(executed) > 0 /\ cur.id = executed[Len(executed)]))
    /\ [][(executed' # executed) => pc["aw"] = "aw_get"]_vars
\* three commands were taken while a fourth was already waiting
C7_Witness == Len(executed) = 3 /\ Len(queue) = 1 /\ pc["aw"] = "aw_loop"

\* ------------------------------------------------------------ C8
ActivePlaybacks == (IF Running(proc) THEN 1 ELSE 0) + Cardinality(orphans)
\* C8: never more than one player process is running; executing Play(b)
\* leaves exactly b's process running, whatever ran before; and only steps
\* of the AudioWorker start or stop a process (a process may also end by
\* itself).
C8_AtMostOnePlayback ==
    /\ [](ActivePlaybacks <= 1)
    /\ [][(pc["aw"] = "aw_play" /\ pc'["aw"] # "aw_play")
            => (Running(proc') /\ proc'[1].file = cur.arg /\ orphans' = {})]_vars
    /\ [][(proc' # proc \/ orphans' # orphans)
            => (pc["aw"] \in {"aw_play", "aw_cmd", "aw_cleanup"}
                   /\ pc'["aw"] # pc["aw"])
               \/ (Running(proc) /\ proc' = <<[proc[1] EXCEPT !.alive = FALSE]>>
                   /\ pc' = pc)]_vars
\* Play(b) was executed while the process playing a was running
C8_Witness == Running(proc) /\ proc[1].file = "b" /\ proc[1].cut = "a"

\* ------------------------------------------------------------ C9
\* C9: with a working backend the "currently playing" flag is true whenever
\* the player process is running.
C9_FlagCoversPlayback ==
    (player = "ok" /\ Running(proc)) => audio_playing

\* ------------------------------------------------------------ C10
\* C10: executing Play for a file that does not exist logs the one error and
\* goes back to the loop for the next command: the player is not touched
\* (no process started or stopped), the flag was and stays false, and the
\* queue keeps the following commands.
C10_MissingFileDropped ==
    [][(pc["aw"] = "aw_cmd" /\ cur.cmd = "play" /\ cur.arg \notin ExistingFiles
          /\ pc'["aw"] # "aw_cmd")
         => /\ pc'["aw"] = "aw_loop"
            /\ history' = "mp3-missing"
            /\ proc' = proc /\ orphans' = orphans
            /\ ~audio_playing /\ ~audio_playing'
            /\ queue' = queue]_vars
\* the missing file was dropped while another playback runs on, and the
\* worker has gone on to the next command
C10_Witness ==
    /\ history = "mp3-missing"
    /\ Running(proc)
    /\ pc["aw"] = "aw_cmd" /\ cur.cmd = "stop"
    /\ \E i \in 1..Len(executed) : i < Len(executed)

\* ------------------------------------------------------------ C11
\* the worker has left its loop (or is leaving it)
AwLeft == pc["aw"] \in {"aw_cleanup", "done"}
\* C11: when the sound backend could not be initialized, the worker stays in
\* its loop until shutdown is asked for; it never starts a player process and
\* the "currently playing" flag stays false; every Play it takes is logged
\* ("no-player", or "mp3-missing" for a missing file) and skipped; Stop,
\* SetVolume and Shutdown are still carried out; and no step of the worker
\* touches the alarm state, the pins or the controller's locks.
C11_NoBackendKeepsRunning ==
    /\ [](player = "none"
            => /\ proc = <<>> /\ orphans = {} /\ ~audio_playing
               /\ pc["aw"] # "aw_play"
               /\ AwLeft => (stop_event \/ cur.cmd = "exit"))
    /\ [][(player = "none" /\ pc["aw"] = "aw_cmd" /\ pc'["aw"] # "aw_cmd")
           => /\ cur.cmd = "play"
                  => /\ pc'["aw"] = "aw_loop"
                     /\ history' \in {"no-player", "mp3-missing"}
              /\ cur.cmd = "stop"
                  => pc'["aw"] = "aw_stop_fin"
              /\ cur.cmd = "set_volume"
                  => /\ pc'["aw"] = "aw_loop"
                     /\ ParsesAsInt(cur.arg)
                           => /\ history' = "volume-set"
                              /\ volume' \in {ClampPercent(IntOf(cur.arg)),
                                              volume}
              /\ cur.cmd = "exit"
                  => pc'["aw"] = "aw_cleanup"]_vars
    /\ [][pc'["aw"] # pc["aw"] => UNCHANGED ctrlVars]_vars
\* without a backend the worker has skipped a Play, carried out a Stop and
\* a SetVolume, and is now taking the next command
C11_Witness ==
    /\ player = "none"
    /\ volume = 50
    /\ Len(executed) = 4
    /\ pc["aw"] = "aw_cmd" /\ cur.cmd = "exit"

\* ------------------------------------------------------------ C12
\* C12: the step that handles the exit command leaves the consume loop; once
\* the worker has left the loop it never goes back and takes no further
\* command, whatever is or comes behind in the queue; and when the worker has
\* ended, no player process is running and the "currently playing" flag is
\* false.
C12_ShutdownStopsWorker ==
    /\ [][(pc["aw"] = "aw_cmd" /\ cur.cmd = "exit" /\ pc'["aw"] # "aw_cmd")
           => pc'["aw"] = "aw_cleanup"]_vars
    /\ [][AwLeft => (AwLeft' /\ executed' = executed /\ cur' = cur)]_vars
    /\ [](pc["aw"] = "done" => (ActivePlaybacks = 0 /\ ~audio_playing))
\* the worker has ended on the exit command with a playback it had to stop
\* and with a command still behind in the queue
C12_Witness ==
    /\ pc["aw"] = "done"
    /\ cur.cmd = "exit"
    /\ proc # <<>>
    /\ \E i \in 1..Len(queue) : queue[i].cmd = "play"

\* ------------------------------------------------------------ C13
\* the flag is set and an exit item has been put
ShutdownAsked ==
    stop_event /\ pc["ui"] \in {"ui_quit", "s_cleanup", "f_put", "f_cleanup",
                                 "exited"}
\* the monitor, the status LED loop, the AudioWorker and every reset-wait
\* thread have returned
AllExited ==
    /\ pc["mon"] = "done" /\ pc["led"] = "done" /\ pc["aw"] = "done"
    /\ \A w \in Waiters : pc[w] = "off"
C14_CleanupOnce ==
    /\ cleanups <= 1
    /\ pc["ui"] = "exited" => cleanups = 1

\* ------------------------------------------------------------ C15
\* places of a reset-wait thread from the confirming sample of a press to the
\* last write of the mute() or reset() it calls for it
AckLabels == {"w_confirm", "w_rel", "m_buz", "m_put", "r_put", "r_buz",
              "r_led"}
\* C15: a step a reset-wait thread takes for a press of the reset button
\* while the alarm state is Idle puts nothing on the audio queue, writes no
\* pin and changes neither the alarm state nor the press counter.
C15_IdleAckNoOp ==
    [][\A w \in Waiters :
         (~alarm_active /\ pc[w] \in AckLabels /\ pc'[w] # pc[w])
            => /\ queue' = queue
               /\ pins' = pins
               /\ alarm_active' = alarm_active
               /\ press_count' = press_count]_vars

\* ------------------------------------------------------------ C16
\* C16: the monitor calls trigger() only for a level of the alarm button
\* that has been HIGH without a break for the 50 ms between its two samples.
C16_DebounceRejectsNoise ==
    [][(pc["mon"] = "mon_confirm" /\ pc'["mon"] = "t_lock") => held >= 1]_vars

\* ------------------------------------------------------------ C17
\* C17: when the alarm button is released after having been HIGH for 100 ms
\* or longer (twice the stability window, so that a release at the very
\* moment of a sample does not count), the monitor has called trigger()
\* exactly once for this hold.
C17_OnePressPerHold ==
    [][(inp.alarm = HIGH /\ inp'.alarm = LOW /\ held >= 2) => hits = 1]_vars

\* ------------------------------------------------------------ C18
\* number of commands c in the audio queue
NumCmd(c) == Cardinality({i \in 1..Len(queue) : queue[i].cmd = c})
\* C18: with GPIO writes that may fail, a trigger() that finds the state
\* Idle makes it Active and goes on to its writes; a thread at a write of
\* trigger(), mute() or reset() always goes on inside the operation (to the
\* next write or to the statement after the try block) and leaves the alarm
\* state as it is; the put of trigger() enqueues
\* Play and is followed by the start of a reset-wait thread; the last step of
\* reset() leaves the state Idle and returns to the caller; and whenever no
\* operation is in progress the queue holds one Stop for every mute() and
\* reset() called and, if trigger() was called, at least one Play.
C18_WriteFailuresContained ==
    /\ [][\A t \in Callers :
           (pc'[t] # pc[t])
              => /\ (pc[t] = "t_check" /\ ~alarm_active)
                     => pc'[t] = "t_buz" /\ alarm_active'
                 /\ pc[t] \in {"t_buz", "t_led"}
                     => /\ pc'[t] \in {"t_led", "t_put"}
                        /\ alarm_active' = alarm_active
                 /\ pc[t] = "t_put"
                     => /\ pc'[t] = "t_start"
                        /\ Len(queue') = Len(queue) + 1
                        /\ queue'[Len(queue')].cmd = "play"
                 /\ pc[t] = "t_start"
                     => /\ pc'[t] = Ret(t, "trigger")
                        /\ LiveWaiters' # LiveWaiters
                 /\ pc[t] = "m_buz" => pc'[t] = "m_put"
                 /\ pc[t] \in {"r_buz", "r_led"}
                     => pc'[t] \in {"r_led", "r_slock"}
                 /\ pc[t] = "r_clear"
                     => ~alarm_active' /\ pc'[t] = Ret(t, "reset")]_vars
    /\ [](Quiet => /\ NumCmd("stop") = ops.mute + ops.reset
                   /\ ops.trigger > 0 => NumCmd("play") >= 1)
\* one trigger() and nothing else was called, both its writes failed, and
\* the alarm is Active with Play enqueued and a reset-wait thread running
C18_Witness ==
    /\ Quiet
    /\ ops = [trigger |-> 1, mute |-> 0, reset |-> 0]
    /\ pins = [buz |-> LOW, led |-> LOW]
    /\ alarm_active
    /\ NumCmd("play") = 1
    /\ LiveWaiters # {}

\* ------------------------------------------------------------ C19
\* C19: when the start has ended and setmode or the setup of one of the four
\* pins had failed, GPIO is the simulated backend.
C19_FallbackOnConfigFailure ==
    (Booted /\ boot.failed) => boot.gpio = "mock"

\* ------------------------------------------------------------ C20
\* C20: in every state and for every caller, the first step of mute() writes
\* the buzzer LOW and nothing else, and its second step appends exactly one
\* Stop to the queue and returns; neither changes the alarm state, the
\* indicator pin or a press counter.  A press counter only grows by a
\* confirmed press of the reset button, and a reset-wait thread calls reset()
\* only when its counter has reached two.
C20_MuteEffects ==
    [][/\ \A t \in Callers :
            (pc'[t] # pc[t] /\ pc[t] \in {"m_buz", "m_put"})
               => /\ alarm_active' = alarm_active
                  /\ press_count' = press_count
                  /\ pins'.led = pins.led
                  /\ pc[t] = "m_buz"
                      => /\ pc'[t] = "m_put"
                         /\ pins'.buz = LOW
                         /\ queue' = queue
                  /\ pc[t] = "m_put"
                      => /\ pc'[t] = Ret(t, "mute")
                         /\ pins' = pins
                         /\ Len(queue') = Len(queue) + 1
                         /\ queue'[Len(queue')].cmd = "stop"
                         /\ SubSeq(queue', 1, Len(queue)) = queue
       /\ \A w \in Waiters :
            /\ press_count'[w] > press_count[w]
                => (pc[w] = "w_confirm" /\ inp.reset = HIGH)
            /\ (pc[w] = "w_rel" /\ pc'[w] = "r_put") => press_count[w] >= 2
      ]_vars
\* the UI has muted a sounding alarm: the state is still Active, the
\* indicator still on, and the reset-wait thread has counted no press
C20_Witness ==
    /\ Quiet
    /\ history = "gui-mute"
    /\ alarm_active
    /\ pins = [buz |-> LOW, led |-> HIGH]
    /\ NumCmd("stop") = 1
    /\ LiveWaiters # {}
    /\ \A w \in Waiters : press_count[w] = 0

\* ------------------------------------------------------------ C21
\* the percent the volume backend gets for the number n
Clamped(n) == IF n < 0 THEN 0 ELSE IF n > 100 THEN 100 ELSE n

C22_IndicatorLiveness ==
    /\ <>[]alarm_active => <>[](pins.led = HIGH)
    /\ <>[](~alarm_active) =>
           ([]<>(pins.led = HIGH) /\ []<>(pins.led = LOW))

\* the alarm is Active, no operation is in progress, the indicator is LOW
\* from a blink that was under way, and the status loop is about to read the
\* state again
C22_Witness ==
    /\ alarm_active /\ Settled
    /\ pins.led = LOW
    /\ pc["led"] = "l_top"

\* ------------------------------------------------------------ C23
\* C23: at most one reset-wait thread is alive at any time, and whenever the
\* alarm is Idle and no controller operation is in progress none is alive,
\* whichever caller's reset() made the alarm Idle.
C23_OneResetWait ==
    /\ Cardinality(LiveWaiters) <= 1
    /\ (~alarm_active /\ Quiet) => LiveWaiters = {}

\* ------------------------------------------------------------ C24
\* the worker has nothing to do: no command queued, none being executed
AwIdle == queue = <<>> /\ pc["aw"] \in {"aw_loop", "aw_get"}

\* C24: whenever the alarm is Idle, no controller operation is in progress,
\* the audio queue is empty and the worker is idle, no player process
\* started by a Play command is still playing.
C24_NoSoundOutlivesAlarm ==
    (~alarm_active /\ Quiet /\ AwIdle) => (~Running(proc) /\ orphans = {})

\* ------------------------------------------------------------ C25
\* the positions where a thread waits for a lock
LockWaits == {"t_lock", "t_slock", "r_slock", "u_slock", "u_alock", "l_top"}
                 \cup FlagWaits
\* the holder of the lock a waiting thread wants
Wanted(t) ==
    IF pc[t] = "t_lock" THEN ctrl_lock
    ELSE IF pc[t] \in {"t_slock", "r_slock", "u_slock", "l_top"} THEN state_lock
    ELSE ap_lock
\* the positions where a thread holds the controller lock, the alarm-state
\* lock and the audio-playing lock
CtrlInside == {"t_slock", "t_check", "t_buz", "t_led", "t_put", "t_start"}
StateInside == {"t_check", "r_clear", "l_read", "u_read"}
AudioInside == {"aw_set", "aw_pf_clear", "aw_sf_clear", "u_aread"}
Holds(lock, inside) ==
    /\ lock \in Threads \cup {"free"}
    /\ \A t \in Threads : (lock = t) <=> (pc[t] \in inside)
\* the threads that can take a step
Runnable == {t \in Threads : ENABLED StepOf(t)}
\* steps a thread has left, at most, before it holds no lock any more
StepsToRelease(l) ==
    CASE l = "t_slock" -> 6 [] l = "t_check" -> 5 [] l = "t_buz" -> 4
      [] l = "t_led" -> 3 [] l = "t_put" -> 2 [] l = "t_start" -> 1
      [] l \in StateInside \cup AudioInside -> 1
      [] OTHER -> 0

\* C25: each of the three locks is held exactly by a thread that is inside
\* the block that took it, so a thread that has left the block on any path,
\* the return of an ignored trigger included, has released it; a thread that
\* waits for a lock finds it free, or its holder can take a step, or that
\* holder waits for a lock whose holder can take a step (no circular wait);
\* and every step of a thread inside a block brings it nearer to the end of
\* the block.
C25_NoDeadlock ==
    /\ [](/\ Holds(ctrl_lock, CtrlInside)
          /\ Holds(state_lock, StateInside)
          /\ Holds(ap_lock, AudioInside))
    /\ [](\A t \in Threads : pc[t] \in LockWaits =>
             \/ Wanted(t) = "free"
             \/ Wanted(t) \in Runnable
             \/ /\ pc[Wanted(t)] \in LockWaits
                /\ Wanted(Wanted(t)) \in Runnable)
    /\ [][\A t \in Threads :
            (StepsToRelease(pc[t]) > 0 /\ pc'[t] # pc[t])
            => StepsToRelease(pc'[t]) < StepsToRelease(pc[t])]_vars

\* with the alarm Active, the monitor's trigger() holds the controller lock
\* and waits for the alarm-state lock, which the status loop holds; the UI's
\* trigger() waits for the controller lock; the worker holds the
\* audio-playing lock
C25_Witness ==
    /\ ctrl_lock = "mon" /\ pc["mon"] = "t_slock"
    /\ state_lock = "led"
    /\ pc["ui"] = "t_lock"
    /\ alarm_active
    /\ ap_lock = "aw"

\* ------------------------------------------------------------ C26
\* the positions before a GPIO.output (main.py:294, 295, 327, 337, 338, 355,
\* 362, 364) and before a GPIO.input that is reached with the stop flag set
\* (main.py:307, 311, 378, 382)
PinUseLabels == {"t_buz", "t_led", "m_buz", "r_buz", "r_led",
                 "l_solid", "l_blink_on", "l_blink_off",
                 "mon_confirm", "mon_rel", "w_confirm", "w_rel"}

\* C26: once GPIO.cleanup() has been called, no thread takes a step that
\* reads or writes a pin.
C26_NoPinUseAfterCleanup ==
    [][cleanups > 0 =>
         \A t \in Threads : pc[t] \in PinUseLabels => pc'[t] = pc[t]]_vars

\* ------------------------------------------------------------ C27
ResetLabels == {"r_put", "r_buz", "r_led", "r_slock", "r_clear"}
\* the statements of reset() in order, and the end of the thread
AfterLabel(l) ==
    CASE l = "r_put" -> "r_buz" [] l = "r_buz" -> "r_led"
      [] l = "r_led" -> "r_slock" [] l = "r_slock" -> "r_clear"
      [] l = "r_clear" -> "off"

\* C27: a reset-wait thread whose read of the reset pin has failed runs
\* reset() and nothing else: it enqueues a Stop, writes the buzzer LOW, the
\* indicator LOW, sets the alarm Idle and ends; and whenever the alarm is
\* Active and no trigger() is still on its way to start one, a reset-wait
\* thread is alive.
C27_FailedWaitResets ==
    /\ [](\A w \in raised : pc[w] \in ResetLabels)
    /\ []((alarm_active /\ ~Triggering) => LiveWaiters # {})
    /\ [][\A w \in raised :
            pc'[w] # pc[w] =>
              /\ pc'[w] = AfterLabel(pc[w])
              /\ pc[w] = "r_put" =>
                     /\ Len(queue') = Len(queue) + 1
                     /\ queue'[Len(queue')].cmd = "stop"
              /\ pc[w] = "r_buz" => pins'.buz = LOW
              /\ pc[w] = "r_led" => pins'.led = LOW
              /\ pc[w] = "r_clear" => (~alarm_active' /\ w \notin raised')]_vars

\* a reset-wait thread has failed while the alarm was Active and before any
\* press, and its reset() has made the alarm Idle
C27_Witness ==
    /\ history = "reset-reactivated"
    /\ ~alarm_active
    /\ pins.buz = LOW /\ pins.led = LOW
    /\ LiveWaiters = {}
    /\ ops.reset = 1 /\ ops.mute = 0
    /\ Len(queue) = 2
====
